---- MODULE Spec2Model ----
(***************************************************************************)
(* good-files: FileOpener (open-mode configuration) and File (path facade). *)
(* The state is the one file the path names, the outcome of the latest     *)
(* call on the File value, and the run of named write calls that led to    *)
(* it.  Every public method of File is one action; the platform calls the  *)
(* method makes (open, write, sync, read, close) are recorded, in order,   *)
(* in the call's log.                                                      *)
(***************************************************************************)
EXTENDS Integers, Sequences, FiniteSets, TLC

\* Longest buffer a caller passes, and longest content the file starts with.
MaxLen == 2
\* Longest content the file is allowed to grow to.
MaxDisk == 3
\* Capacity of the BufWriter that buf_writer builds (8192 in std), scaled down
\* so that buffers below and at the capacity both occur.
Cap == 2

\* Byte values: 195 169 is the UTF-8 encoding of U+00E9; either byte alone,
\* or the pair reversed, is not valid UTF-8.
Bytes == {169, 195}

BSeq(n) == UNION {[1..k -> Bytes] : k \in 0..n}

Bufs == BSeq(MaxLen)

\* ---- the file system entry the path names ----

NoFile == [exists |-> FALSE, data |-> <<>>]

FileOf(b) == [exists |-> TRUE, data |-> b]

\* ---- CreateMode, WriteOption, FileOpener ----

CreateMode == {"CreateNew", "IfNotExists", "Never"}

\* Option<WriteOption>
WriteOption == {"Append", "Overwrite", "Truncate", "None"}

\* struct FileOpener(CreateMode, bool, Option<WriteOption>)
FileOpener == CreateMode \X BOOLEAN \X WriteOption

FileOpener_appending_creates == <<"IfNotExists", FALSE, "Append">>
FileOpener_appending_at_start == <<"Never", FALSE, "Overwrite">>
FileOpener_appending == <<"Never", FALSE, "Append">>

FileOpener_truncate == <<"IfNotExists", FALSE, "Truncate">>

FileOpener_overwrite_appends == <<"IfNotExists", FALSE, "Append">>
FileOpener_overwrite == <<"IfNotExists", FALSE, "Overwrite">>

FileOpener_append_or_create == <<"IfNotExists", FALSE, "Append">>

FileOpener_readonly_creates == <<"IfNotExists", TRUE, "Append">>
FileOpener_readonly == <<"Never", TRUE, "None">>

\* OpenOptions::new(): every flag false
OpenOptions_new ==
  [read |-> FALSE, write |-> FALSE, append |-> FALSE,
   truncate |-> FALSE, create |-> FALSE, create_new |-> FALSE]

into_open_options_overwrite_truncates(self) ==
  LET opts0 == OpenOptions_new
      opts1 == CASE self[1] = "CreateNew" -> [opts0 EXCEPT !.create_new = TRUE]
                 [] self[1] = "IfNotExists" -> [opts0 EXCEPT !.create = TRUE]
                 [] OTHER -> opts0
      opts2 == [opts1 EXCEPT !.read = self[2]]
      opts3 == CASE self[3] = "Append" -> [opts2 EXCEPT !.append = TRUE]
                 [] self[3] = "Overwrite" ->
                      [opts2 EXCEPT !.write = TRUE, !.truncate = TRUE]
                 [] self[3] = "Truncate" -> [opts2 EXCEPT !.truncate = TRUE]
                 [] OTHER -> opts2
  IN opts3
\* Construct owned OpenOptions from this opener.
into_open_options(self) ==
  LET opts0 == OpenOptions_new
      \* set creation mode
      opts1 == CASE self[1] = "CreateNew" -> [opts0 EXCEPT !.create_new = TRUE]
                 [] self[1] = "IfNotExists" -> [opts0 EXCEPT !.create = TRUE]
                 [] OTHER -> opts0
      \* set read option
      opts2 == [opts1 EXCEPT !.read = self[2]]
      \* set write option
      opts3 == CASE self[3] = "Append" -> [opts2 EXCEPT !.append = TRUE]
                 [] self[3] = "Overwrite" -> [opts2 EXCEPT !.write = TRUE]
                 [] self[3] = "Truncate" -> [opts2 EXCEPT !.truncate = TRUE]
                 [] OTHER -> opts2
  IN opts3

\* ---- the platform behind OpenOptions::open ----

\* std's access-mode table: which access the flags ask for, "EINVAL" when none
get_access_mode(o) ==
  CASE o.read /\ ~o.write /\ ~o.append -> "RDONLY"
    [] ~o.read /\ o.write /\ ~o.append -> "WRONLY"
    [] o.read /\ o.write /\ ~o.append -> "RDWR"
    [] ~o.read /\ o.append -> "WRONLY_APPEND"
    [] o.read /\ o.append -> "RDWR_APPEND"
    [] OTHER -> "EINVAL"

\* std's creation-mode check: create, create_new and truncate need write access,
\* and truncate is refused together with append
creation_mode_valid(o) ==
  CASE o.write /\ ~o.append -> TRUE
    [] ~o.write /\ ~o.append -> ~(o.truncate \/ o.create \/ o.create_new)
    [] OTHER -> ~(o.truncate /\ ~o.create_new)

NoFd == [readable |-> FALSE, writable |-> FALSE, append |-> FALSE, pos |-> 0]

FdOf(o) ==
  [readable |-> o.read, writable |-> o.write \/ o.append, append |-> o.append, pos |-> 0]

\* One platform call in a method's log.
Ev(c, n, ok) == [call |-> c, n |-> n, ok |-> ok]

OpenErr(kind, d, hit) ==
  [err |-> kind, disk |-> d, fd |-> NoFd, hit |-> hit]

OpenOk(o, d) == [err |-> "none", disk |-> d, fd |-> FdOf(o), hit |-> FALSE]

\* OpenOptions::open(path): the flags are validated, then the entry is looked
\* up, then (deny) the platform may refuse access to it.
OpenOptions_open(o, d, deny) ==
  IF get_access_mode(o) = "EINVAL" \/ ~creation_mode_valid(o)
  THEN OpenErr("InvalidInput", d, FALSE)
  ELSE IF o.create_new
  THEN IF d.exists THEN OpenErr("AlreadyExists", d, FALSE)
       ELSE IF deny THEN OpenErr("PermissionDenied", d, TRUE)
       ELSE OpenOk(o, FileOf(<<>>))
  ELSE IF ~d.exists
  THEN IF ~o.create THEN OpenErr("NotFound", d, FALSE)
       ELSE IF deny THEN OpenErr("PermissionDenied", d, TRUE)
       ELSE OpenOk(o, FileOf(<<>>))
  ELSE IF deny THEN OpenErr("PermissionDenied", d, TRUE)
       ELSE OpenOk(o, IF o.truncate THEN FileOf(<<>>) ELSE d)

\* impl Open for FileOpener
FileOpener_open(self, d, deny) == OpenOptions_open(into_open_options(self), d, deny)

\* The bytes of a file after `bytes` are written at offset pos.
WriteAt(data, pos, bytes) ==
  SubSeq(data, 1, pos) \o bytes \o SubSeq(data, pos + Len(bytes) + 1, Len(data))

\* Write::write_all on the descriptor: every byte is transferred, or (fail) k
\* bytes are and the next write call fails; a descriptor without write access
\* refuses the first call.
fd_write_all(fd, d, bytes, fail, k) ==
  LET at == IF fd.append THEN Len(d.data) ELSE fd.pos
      n == IF k < Len(bytes) THEN k ELSE 0
  IN IF ~fd.writable
     THEN [err |-> "BadFd", disk |-> d, log |-> <<Ev("write", 0, FALSE)>>,
           hit |-> FALSE]
     ELSE IF fail
     THEN [err |-> "Other", disk |-> FileOf(WriteAt(d.data, at, SubSeq(bytes, 1, n))),
           log |-> (IF n > 0 THEN <<Ev("write", n, TRUE)>> ELSE <<>>)
                   \o <<Ev("write", 0, FALSE)>>,
           hit |-> TRUE]
     ELSE [err |-> "none", disk |-> FileOf(WriteAt(d.data, at, bytes)),
           log |-> <<Ev("write", Len(bytes), TRUE)>>, hit |-> FALSE]

\* ---- BufWriter<fs::File> ----

\* BufWriter::write_all on an empty buffer: fewer bytes than the capacity are
\* kept in the buffer, anything else goes straight to the descriptor.
BufWriter_write_all(fd, d, bytes, fail, k) ==
  IF Len(bytes) < Cap
  THEN [err |-> "none", disk |-> d, log |-> <<>>, hit |-> FALSE, buf |-> bytes]
  ELSE LET w == fd_write_all(fd, d, bytes, fail, k)
       IN [err |-> w.err, disk |-> w.disk, log |-> w.log, hit |-> w.hit, buf |-> <<>>]

BufWriter_drop_leaks(fd, d, buffered, fail, k) ==
  IF buffered = <<>>
  THEN [disk |-> d, log |-> <<>>, hit |-> FALSE]
  ELSE LET w == fd_write_all(fd, d, buffered, fail, k)
       IN [disk |-> w.disk, log |-> w.log, hit |-> w.hit]
\* Drop for BufWriter, then for the fs::File inside it: the buffered bytes are
\* flushed with the result ignored, and the descriptor is closed.
BufWriter_drop(fd, d, buffered, fail, k) ==
  IF buffered = <<>>
  THEN [disk |-> d, log |-> <<Ev("close", 0, TRUE)>>, hit |-> FALSE]
  ELSE LET w == fd_write_all(fd, d, buffered, fail, k)
       IN [disk |-> w.disk, log |-> w.log \o <<Ev("close", 0, TRUE)>>, hit |-> w.hit]

\* ---- results ----

Ok(val, fd) == [ok |-> TRUE, err |-> "none", val |-> val, fd |-> fd]

Err(kind) == [ok |-> FALSE, err |-> kind, val |-> <<>>, fd |-> "none"]

Out(res, d, log, hit) == [res |-> res, disk |-> d, log |-> log, hit |-> hit]

\* The access a handle given to the caller allows.
Access(fd) ==
  IF fd.readable /\ fd.writable THEN "rw"
  ELSE IF fd.writable THEN "w"
  ELSE IF fd.readable THEN "r" ELSE "none"

\* ---- String::from_utf8 as read_to_string applies it ----

IsCont(b, i) == i <= Len(b) /\ b[i] \in 128..191

RECURSIVE from_utf8(_, _)
\* The code points of b from index i on, or ok = FALSE when b is not UTF-8.
from_utf8(b, i) ==
  IF i > Len(b) THEN [ok |-> TRUE, s |-> <<>>]
  ELSE
    LET c == b[i]
        width == CASE c < 128 -> 1
                   [] c \in 194..223 -> 2
                   [] c \in 224..239 -> 3
                   [] c \in 240..244 -> 4
                   [] OTHER -> 0
        wellFormed ==
          CASE width = 1 -> TRUE
            [] width = 2 -> IsCont(b, i + 1)
            [] width = 3 -> /\ IsCont(b, i + 1) /\ IsCont(b, i + 2)
                            /\ (c = 224 => b[i + 1] >= 160)
                            /\ (c = 237 => b[i + 1] <= 159)
            [] width = 4 -> /\ IsCont(b, i + 1) /\ IsCont(b, i + 2) /\ IsCont(b, i + 3)
                            /\ (c = 240 => b[i + 1] >= 144)
                            /\ (c = 244 => b[i + 1] <= 143)
            [] OTHER -> FALSE
    IN IF ~wellFormed THEN [ok |-> FALSE, s |-> <<>>]
       ELSE
         LET cp == CASE width = 1 -> c
                     [] width = 2 -> (c - 192) * 64 + (b[i + 1] - 128)
                     [] width = 3 -> (c - 224) * 4096 + (b[i + 1] - 128) * 64
                                     + (b[i + 2] - 128)
                     [] OTHER -> (c - 240) * 262144 + (b[i + 1] - 128) * 4096
                                 + (b[i + 2] - 128) * 64 + (b[i + 3] - 128)
             rest == from_utf8(b, i + width)
         IN IF rest.ok THEN [ok |-> TRUE, s |-> <<cp>> \o rest.s]
            ELSE [ok |-> FALSE, s |-> <<>>]

\* ---- impl File ----

\* f is the platform call that fails in this call ("none": no call fails), k the
\* bytes a failing write transfers before it fails.
Faults == {"none", "open", "write", "sync", "read"}

open_with(opt, d, f) ==
  LET o == FileOpener_open(opt, d, f = "open")
  IN IF o.err # "none"
     THEN Out(Err(o.err), o.disk, <<Ev("open", 0, FALSE)>>, o.hit)
     ELSE Out(Ok(<<>>, Access(o.fd)), o.disk, <<Ev("open", 0, TRUE)>>, FALSE)

create_if_absent(d, f) == open_with(FileOpener_append_or_create, d, f)

buf_reader(d, f) == open_with(FileOpener_readonly, d, f)

buf_writer(opt, d, f) == open_with(opt, d, f)

\* read_to_end (text = FALSE) or read_to_string (text = TRUE) on the reader
\* that buf_reader returns; the reader is dropped on every path.
ReadWith(text, d, f) ==
  LET o == FileOpener_open(FileOpener_readonly, d, f = "open")
      opened == <<Ev("open", 0, TRUE)>>
      closed == <<Ev("close", 0, TRUE)>>
  IN IF o.err # "none"
     THEN Out(Err(o.err), o.disk, <<Ev("open", 0, FALSE)>>, o.hit)
     ELSE IF ~o.fd.readable
     THEN Out(Err("BadFd"), o.disk, opened \o <<Ev("read", 0, FALSE)>> \o closed, FALSE)
     ELSE IF f = "read"
     THEN Out(Err("Other"), o.disk, opened \o <<Ev("read", 0, FALSE)>> \o closed, TRUE)
     ELSE
       LET bytes == o.disk.data
           got == opened \o <<Ev("read", Len(bytes), TRUE)>> \o closed
           s == from_utf8(bytes, 1)
       IN IF ~text THEN Out(Ok(bytes, "none"), o.disk, got, FALSE)
          ELSE IF s.ok THEN Out(Ok(s.s, "none"), o.disk, got, FALSE)
          ELSE Out(Err("InvalidData"), o.disk, got, FALSE)

read_all(d, f) == ReadWith(FALSE, d, f)

read_string(d, f) == ReadWith(TRUE, d, f)

write_all_with(buf, opt, d, f, k) ==
  \* let mut w = self.buf_writer(opt)?;
  LET o == FileOpener_open(opt, d, f = "open")
      opened == <<Ev("open", 0, TRUE)>>
  IN IF o.err # "none"
     THEN Out(Err(o.err), o.disk, <<Ev("open", 0, FALSE)>>, o.hit)
     ELSE
       \* w.write_all(buf)?;
       LET wr == BufWriter_write_all(o.fd, o.disk, buf, f = "write", k)
       IN IF wr.err # "none"
          THEN LET dr == BufWriter_drop(o.fd, wr.disk, wr.buf, FALSE, 0)
               IN Out(Err(wr.err), dr.disk, opened \o wr.log \o dr.log, wr.hit)
          ELSE
            \* w.get_ref().sync_all()?;  and w goes out of scope
            LET dr == BufWriter_drop(o.fd, wr.disk, wr.buf, f = "write", k)
            IN IF f = "sync"
               THEN Out(Err("Other"), dr.disk,
                        opened \o wr.log \o <<Ev("sync", 0, FALSE)>> \o dr.log, TRUE)
               ELSE Out(Ok(<<>>, "none"), dr.disk,
                        opened \o wr.log \o <<Ev("sync", 0, TRUE)>> \o dr.log,
                        wr.hit \/ dr.hit)

append(buf, d, f, k) == write_all_with(buf, FileOpener_appending, d, f, k)

overwrite(buf, d, f, k) == write_all_with(buf, FileOpener_overwrite, d, f, k)

truncate(buf, d, f, k) == write_all_with(buf, FileOpener_truncate, d, f, k)

\* ---- state ----

\* disk: the file the path names.  last: the latest call, its arguments, result
\* and platform calls.  run: the named write calls that led to it.  held: the
\* descriptors the library has opened and neither closed nor handed over.
\* platform: "sound" when no platform call fails, "faulty" when one platform
\* call of each method may fail (the run is kept on a sound platform only).
VARIABLES disk, last, run, held, platform

vars == <<disk, last, run, held, platform>>

\* The platform calls that may fail during one method call.
MayFail == IF platform = "sound" THEN {"none"} ELSE Faults

\* Openers a caller passes to write_all_with itself, next to the factories the
\* named methods pass.
CallerOpeners ==
  {FileOpener_append_or_create, FileOpener_readonly, <<"CreateNew", TRUE, "Overwrite">>}

\* The openers the factory functions build.
Factories ==
  {FileOpener_appending, FileOpener_truncate, FileOpener_overwrite,
   FileOpener_append_or_create, FileOpener_readonly}

NamedWrites == {"append", "overwrite", "truncate"}

Reads == {"read_all", "read_string"}

\* Methods that keep the descriptor to themselves.
Scoped == NamedWrites \cup Reads \cup {"write_all_with"}

Count(log, c) == Cardinality({i \in DOMAIN log : log[i].call = c /\ log[i].ok})

\* The named write calls behind the current content, on a sound platform: the
\* latest one, preceded by the overwrite right before it when that succeeded.
\* Reads leave the run as it is, any other call ends it.
NextRun(op, buf, out) ==
  LET rec == [op |-> op, buf |-> buf, pre |-> disk, ok |-> out.res.ok]
  IN IF op \in NamedWrites
     THEN IF Len(run) = 1 /\ run[1].op = "overwrite" /\ run[1].ok
          THEN <<run[1], rec>>
          ELSE <<rec>>
     ELSE IF op \in Reads THEN run
     ELSE <<>>

\* The call returns: the file, the record of the call and the descriptor count
\* are what the method left behind.
Return(op, buf, cfg, out) ==
  /\ Len(out.disk.data) <= MaxDisk
  /\ disk' = out.disk
  /\ last' = [op |-> op, buf |-> buf, cfg |-> cfg, opts |-> into_open_options(cfg),
              res |-> out.res, pre |-> disk, log |-> out.log, hit |-> out.hit]
  /\ run' = IF platform = "sound" THEN NextRun(op, buf, out) ELSE <<>>
  /\ held' = IF op \in Scoped
             THEN held + Count(out.log, "open") - Count(out.log, "close")
             ELSE held
  /\ UNCHANGED platform

Init ==
  /\ disk \in {NoFile} \cup {FileOf(b) : b \in BSeq(MaxLen)}
  /\ last = [op |-> "none", buf |-> <<>>, cfg |-> FileOpener_readonly,
             opts |-> into_open_options(FileOpener_readonly),
             res |-> Ok(<<>>, "none"), pre |-> NoFile, log |-> <<>>, hit |-> FALSE]
  /\ run = <<>>
  /\ held = 0
  /\ platform \in {"sound", "faulty"}

OpenWith ==
  \E opt \in FileOpener, f \in MayFail \cap {"none", "open"} :
    Return("open_with", <<>>, opt, open_with(opt, disk, f))

CreateIfAbsent ==
  \E f \in MayFail \cap {"none", "open"} :
    Return("create_if_absent", <<>>, FileOpener_append_or_create,
           create_if_absent(disk, f))

BufReader ==
  \E f \in MayFail \cap {"none", "open"} :
    Return("buf_reader", <<>>, FileOpener_readonly, buf_reader(disk, f))

BufWriter ==
  \E opt \in Factories \cup CallerOpeners, f \in MayFail \cap {"none", "open"} :
    Return("buf_writer", <<>>, opt, buf_writer(opt, disk, f))

ReadAll ==
  \E f \in MayFail \cap {"none", "open", "read"} :
    Return("read_all", <<>>, FileOpener_readonly, read_all(disk, f))

ReadString ==
  \E f \in MayFail \cap {"none", "open", "read"} :
    Return("read_string", <<>>, FileOpener_readonly, read_string(disk, f))

\* The failing call and, for a failing write, the bytes it transfers first.
WriteFaults(buf) ==
  {<<f, k>> \in (MayFail \ {"read"}) \X (0..(MaxLen - 1)) :
     k = 0 \/ (f = "write" /\ k < Len(buf))}

AppendCall ==
  \E buf \in Bufs : \E fk \in WriteFaults(buf) :
    Return("append", buf, FileOpener_appending, append(buf, disk, fk[1], fk[2]))

OverwriteCall ==
  \E buf \in Bufs : \E fk \in WriteFaults(buf) :
    Return("overwrite", buf, FileOpener_overwrite, overwrite(buf, disk, fk[1], fk[2]))

TruncateCall ==
  \E buf \in Bufs : \E fk \in WriteFaults(buf) :
    Return("truncate", buf, FileOpener_truncate, truncate(buf, disk, fk[1], fk[2]))

WriteAllWith ==
  \E buf \in Bufs, opt \in CallerOpeners : \E fk \in WriteFaults(buf) :
    Return("write_all_with", buf, opt, write_all_with(buf, opt, disk, fk[1], fk[2]))

Next ==
  \/ OpenWith
  \/ CreateIfAbsent
  \/ BufReader
  \/ BufWriter
  \/ ReadAll
  \/ ReadString
  \/ AppendCall
  \/ OverwriteCall
  \/ TruncateCall
  \/ WriteAllWith

Spec == Init /\ [][Next]_vars

\* ---- properties ----

WriteOps == NamedWrites \cup {"write_all_with"}

\* The bytes of c from offset n on.
DropFirst(c, n) == SubSeq(c, n + 1, Len(c))

RECURSIVE Written(_, _)
\* The bytes the first n platform calls of a log transferred to the file.
Written(log, n) ==
  IF n = 0 THEN 0
  ELSE Written(log, n - 1)
       + (IF log[n].call = "write" /\ log[n].ok THEN log[n].n ELSE 0)

RECURSIVE Utf8Encode(_)
\* The bytes of a string of code points below U+0800.
Utf8Encode(s) ==
  IF s = <<>> THEN <<>>
  ELSE (IF Head(s) < 128 THEN <<Head(s)>>
        ELSE <<192 + (Head(s) \div 64), 128 + (Head(s) % 64)>>)
       \o Utf8Encode(Tail(s))

\* The strings whose encoding is made of Bytes: U+00E9 repeated.
Texts == UNION {[1..n -> {233}] : n \in 0..MaxDisk}

IsText(b) == \E s \in Texts : Utf8Encode(s) = b

LastWrite == run[Len(run)]

\* C1: truncate(B) succeeds whatever the path held, the file is then exactly B,
\* and a read_all that follows returns exactly B.
C1_TruncateRoundTrip ==
  /\ (last.op = "truncate" /\ ~last.hit)
       => (last.res.ok /\ disk = FileOf(last.buf))
  /\ (last.op = "read_all" /\ ~last.hit /\ run # <<>> /\ LastWrite.op = "truncate")
       => (LastWrite.ok /\ last.res = Ok(LastWrite.buf, "none"))

\* C2: when a write method returns Ok, every byte of its buffer was handed to
\* the platform write call before the sync call was issued.
C2_WrittenBeforeSync ==
  (last.op \in WriteOps /\ last.res.ok)
    => \E i \in DOMAIN last.log :
         /\ last.log[i].call = "sync"
         /\ last.log[i].ok
         /\ Written(last.log, i - 1) = Len(last.buf)

C3Case ==
  /\ last.op = "read_all"
  /\ ~last.hit
  /\ Len(run) = 2
  /\ run[1].op = "overwrite"
  /\ run[2].op = "append"

\* C3 as stated: overwrite(B1), append(B2), read_all returns B1 ++ B2 whatever
\* the path held before.
C3_AppendAccumulation_Original ==
  C3Case => (run[2].ok /\ last.res = Ok(run[1].buf \o run[2].buf, "none"))

\* C3 amended: overwrite(B1), append(B2), read_all returns B1, then the bytes
\* the path held before at offsets >= len(B1), then B2.
C3_AppendAccumulation ==
  C3Case =>
    /\ run[2].ok
    /\ last.res = Ok(run[1].buf
                     \o DropFirst(run[1].pre.data, Len(run[1].buf))
                     \o run[2].buf, "none")

C3_Witness ==
  /\ C3Case
  /\ run[1].buf # <<>>
  /\ run[2].buf # <<>>
  /\ Len(run[1].pre.data) > Len(run[1].buf)

C4Case ==
  /\ last.op = "overwrite"
  /\ ~last.hit
  /\ Len(run) = 2
  /\ run[1].op = "overwrite"
  /\ run[2].op = "overwrite"
  /\ run[1].buf = run[2].buf

\* C4 as stated: after the first overwrite(B) the content is exactly B, and
\* after the second it is exactly B.
C4_IdempotentOverwrite_Original ==
  C4Case => (run[2].pre = FileOf(run[1].buf) /\ disk = FileOf(run[2].buf))

\* C4 amended: the second overwrite(B) leaves the content as the first left it,
\* which is B followed by the bytes the path held before at offsets >= len(B).
C4_IdempotentOverwrite ==
  C4Case =>
    /\ run[2].ok
    /\ disk = run[2].pre
    /\ disk = FileOf(run[1].buf \o DropFirst(run[1].pre.data, Len(run[1].buf)))

C4_Witness ==
  /\ C4Case
  /\ run[1].buf # <<>>
  /\ Len(run[1].pre.data) > Len(run[1].buf)

C6_AppendRequiresExistence ==
  (last.op = "append" /\ ~last.pre.exists)
    => /\ last.res = Err("NotFound")
       /\ ~disk.exists
       /\ \A i \in DOMAIN last.log : last.log[i].call # "write"

C6_Witness ==
  /\ last.op = "append"
  /\ ~last.pre.exists
  /\ last.buf # <<>>
  /\ ~last.res.ok

ReadonlyOpen ==
  \/ last.op \in {"open_with", "buf_writer"} /\ last.cfg = FileOpener_readonly
  \/ last.op \in {"buf_reader", "read_all", "read_string"}

\* C7: opening a path that does not exist with the readonly opener (open_with,
\* buf_reader, read_all, read_string) fails with NotFound, creates no file and
\* gives the caller no handle.
C7_ReadonlyNeverCreates ==
  (ReadonlyOpen /\ ~last.pre.exists)
    => /\ last.res = Err("NotFound")
       /\ ~disk.exists
       /\ \A i \in DOMAIN last.log : ~last.log[i].ok

C7_Witness ==
  /\ last.op = "open_with"
  /\ last.cfg = <<"Never", TRUE, "None">>
  /\ ~last.pre.exists
  /\ last.res.err = "NotFound"

\* C8: a write method returns Ok only if the open, every platform write that
\* transfers the buffer and the sync succeeded, and a failure of any of them
\* is the error the method returns.
C8_WriteErrorsPropagate ==
  last.op \in WriteOps =>
    /\ last.res.ok
         => /\ \A i \in DOMAIN last.log : last.log[i].ok
            /\ Written(last.log, Len(last.log)) = Len(last.buf)
    /\ (\E i \in DOMAIN last.log : ~last.log[i].ok) => ~last.res.ok

\* The flags of the claim's table for an opener c.
C9_Flags(c) ==
  [read |-> c[2], write |-> c[3] = "Overwrite", append |-> c[3] = "Append",
   truncate |-> c[3] = "Truncate", create |-> c[1] = "IfNotExists",
   create_new |-> c[1] = "CreateNew"]

\* The flag table alone: it holds of every opener a call is made with.
C9_FlagTable == last.opts = C9_Flags(last.cfg)

\* C9: into_open_options yields the flags of the table for every opener, and
\* the flags of each factory give the access it is documented for: appending,
\* truncate, overwrite and append_or_create open for writing, readonly for
\* reading only.
C9_FlagTranslation ==
  /\ last.opts = C9_Flags(last.cfg)
  /\ last.cfg \in Factories \ {FileOpener_readonly}
       => /\ last.res.err # "InvalidInput"
          /\ get_access_mode(last.opts) \in {"WRONLY", "WRONLY_APPEND"}
          /\ (last.op \in {"open_with", "buf_writer", "create_if_absent"} /\ last.res.ok)
               => last.res.fd = "w"
  /\ last.cfg = FileOpener_readonly
       => /\ last.res.err # "InvalidInput"
          /\ get_access_mode(last.opts) = "RDONLY"
          /\ (last.op \in {"open_with", "buf_writer", "buf_reader"} /\ last.res.ok)
               => last.res.fd = "r"

\* C10: a method that hands no handle to the caller opens at most one
\* descriptor and has closed it when it returns, on every path; the library
\* holds no descriptor between calls.
C10_ScopedDescriptors ==
  /\ held = 0
  /\ last.op \in Scoped =>
       /\ Count(last.log, "open") <= 1
       /\ Count(last.log, "close") = Count(last.log, "open")
       /\ Count(last.log, "open") = 1 => last.log[Len(last.log)].call = "close"

C10_Witness ==
  /\ last.op \in WriteOps
  /\ ~last.res.ok
  /\ Count(last.log, "open") = 1
  /\ \E i \in DOMAIN last.log : last.log[i].call = "sync" /\ ~last.log[i].ok
  /\ last.log[Len(last.log)].call = "close"

====
